---- MODULE Spec2Model ----
(***************************************************************************)
(* News archiver (News_Archive/main.py): fetch an RSS feed, parse it,     *)
(* keep today's items, insert the new ones into the sqlite table `news`   *)
(* (link UNIQUE), read today's rows back and render them to a page.        *)
(*                                                                         *)
(* Text is a sequence of one-character strings, so that lower(),           *)
(* endswith(), strip(), LIKE 'prefix%' and ORDER BY on text are computed   *)
(* on characters.  A Python value that may be None (and an SQL value that  *)
(* may be NULL) is a sequence of length at most one: <<>> is None/NULL,    *)
(* <<v>> is the value v.                                                   *)
(***************************************************************************)
EXTENDS Integers, Sequences, FiniteSets, TLC

VARIABLES db, files, now, op, args, ret, run

vars == <<db, files, now, op, args, ret, run>>

(***************************** bounds *************************************)
\* the clock takes the instants 0..MaxTicks, TicksPerDay of them in a day,
\* starting on 1 March 2024
MaxTicks == 1
TicksPerDay == 1
\* at most MaxFeedItems <item> elements in a fetched feed built from the pool
MaxFeedItems == 2
\* at most MaxSaveItems items in a direct save_new_to_db call
MaxSaveItems == 1
\* at most MaxFilterItems items in a filter_news call
MaxFilterItems == 2
\* at most MaxNodes elements in a document given to parse_rss alone
MaxNodes == 3

(***************************** text ***************************************)
None == <<>>
Some(v) == <<v>>
IsNone(o) == Len(o) = 0
Val(o) == o[1]

RECURSIVE Concat(_)
Concat(ss) == IF Len(ss) = 0 THEN <<>> ELSE Head(ss) \o Concat(Tail(ss))

Upper == <<"A","B","C","D","E","F","G","H","I","J","K","L","M",
           "N","O","P","Q","R","S","T","U","V","W","X","Y","Z">>
LowerLetters == <<"a","b","c","d","e","f","g","h","i","j","k","l","m",
                  "n","o","p","q","r","s","t","u","v","w","x","y","z">>

\* str.lower() on one character
LowerOf == [c \in {Upper[i] : i \in 1..26} |->
               LowerLetters[CHOOSE i \in 1..26 : Upper[i] = c]]
LowerChar(c) == IF c \in DOMAIN LowerOf THEN LowerOf[c] ELSE c

\* str.lower()
Lower(s) == [i \in 1..Len(s) |-> LowerChar(s[i])]

\* str.endswith(suffix)
EndsWith(s, suffix) ==
    /\ Len(s) >= Len(suffix)
    /\ SubSeq(s, Len(s) - Len(suffix) + 1, Len(s)) = suffix

\* str.startswith(prefix)
StartsWith(s, prefix) ==
    /\ Len(s) >= Len(prefix)
    /\ SubSeq(s, 1, Len(prefix)) = prefix

Whitespace == {" ", "\t", "\n"}

\* str.strip(): drop leading and trailing whitespace
RECURSIVE LStrip(_)
LStrip(s) == IF Len(s) > 0 /\ Head(s) \in Whitespace THEN LStrip(Tail(s)) ELSE s
RECURSIVE RStrip(_)
RStrip(s) ==
    IF Len(s) > 0 /\ s[Len(s)] \in Whitespace
    THEN RStrip(SubSeq(s, 1, Len(s) - 1))
    ELSE s
Strip(s) == RStrip(LStrip(s))

\* html.unescape, for the named references &amp; &lt; &gt; &quot;
Entities == << <<<<"&","a","m","p",";">>, "&">>,
               <<<<"&","l","t",";">>, "<">>,
               <<<<"&","g","t",";">>, ">">>,
               <<<<"&","q","u","o","t",";">>, "\"">> >>
RECURSIVE Unescape(_)
Unescape(s) ==
    IF Len(s) = 0 THEN <<>>
    ELSE IF \E i \in 1..Len(Entities) : StartsWith(s, Entities[i][1])
    THEN LET i == CHOOSE j \in 1..Len(Entities) : StartsWith(s, Entities[j][1])
         IN  <<Entities[i][2]>> \o Unescape(SubSeq(s, Len(Entities[i][1]) + 1, Len(s)))
    ELSE <<Head(s)>> \o Unescape(Tail(s))

\* html.escape (quote=True)
EscapeChar(c) ==
    CASE c = "&"  -> <<"&","a","m","p",";">>
      [] c = "<"  -> <<"&","l","t",";">>
      [] c = ">"  -> <<"&","g","t",";">>
      [] c = "\"" -> <<"&","q","u","o","t",";">>
      [] c = "'"  -> <<"&","#","x","2","7",";">>
      [] OTHER    -> <<c>>
Escape(s) == Concat([i \in 1..Len(s) |-> EscapeChar(s[i])])

Digits == <<"0","1","2","3","4","5","6","7","8","9">>
DigitOf == [c \in {Digits[n] : n \in 1..10} |-> (CHOOSE n \in 1..10 : Digits[n] = c) - 1]
IsDigit(c) == c \in DOMAIN DigitOf
DigitVal(c) == DigitOf[c]
TwoDigits(n) == <<Digits[(n \div 10) + 1], Digits[(n % 10) + 1]>>
FourDigits(n) == TwoDigits(n \div 100) \o TwoDigits(n % 100)
AllDigits(s) == \A i \in 1..Len(s) : IsDigit(s[i])
\* the number written by the two digits of s at i, i + 1
Num2(s, i) == 10 * DigitVal(s[i]) + DigitVal(s[i + 1])
RECURSIVE NumVal(_)
NumVal(s) == IF Len(s) = 0 THEN 0
             ELSE 10 * NumVal(SubSeq(s, 1, Len(s) - 1)) + DigitVal(s[Len(s)])

\* the byte value of a character, which sqlite's BINARY collation compares
Ord(c) ==
    CASE c = " " -> 32
      [] c = "+" -> 43
      [] c = "-" -> 45
      [] c = ":" -> 58
      [] c = "T" -> 84
      [] IsDigit(c) -> 48 + DigitVal(c)
      [] OTHER -> 128

\* memcmp order on text: s sorts strictly before t
TextLess(s, t) ==
    LET n == IF Len(s) < Len(t) THEN Len(s) ELSE Len(t)
        differ == {i \in 1..n : s[i] # t[i]}
        first == CHOOSE i \in differ : \A j \in differ : i <= j
    IN  IF differ = {} THEN Len(s) < Len(t) ELSE Ord(s[first]) < Ord(t[first])

(***************************** dates **************************************)
\* A datetime is [year, month, day, hour, minute, second, tz]; tz is None for
\* a naive value and Some(offset in minutes east of UTC) for an aware one.
\* A date is [year, month, day].

Months == << <<"j","a","n">>, <<"f","e","b">>, <<"m","a","r">>, <<"a","p","r">>,
             <<"m","a","y">>, <<"j","u","n">>, <<"j","u","l">>, <<"a","u","g">>,
             <<"s","e","p">>, <<"o","c","t">>, <<"n","o","v">>, <<"d","e","c">> >>

\* an RFC-2822 date may start with a day name, "Thu, "
DropDayName(s) ==
    IF Len(s) >= 5 /\ s[4] = "," /\ s[5] = " " THEN SubSeq(s, 6, Len(s)) ELSE s

\* email.utils.parsedate_to_datetime on "[Www, ]dd Mon yyyy hh:mm:ss +zzzz":
\* Some(datetime), or None where the library raises.  A zone of -0000 gives
\* a naive datetime.
ParsedateToDatetime(raw) ==
    LET s == DropDayName(raw) IN
    IF /\ Len(s) = 26
       /\ s[3] = " " /\ s[7] = " " /\ s[12] = " " /\ s[21] = " "
       /\ s[15] = ":" /\ s[18] = ":"
       /\ s[22] \in {"+", "-"}
       /\ AllDigits(SubSeq(s, 1, 2)) /\ AllDigits(SubSeq(s, 8, 11))
       /\ AllDigits(SubSeq(s, 13, 14)) /\ AllDigits(SubSeq(s, 16, 17))
       /\ AllDigits(SubSeq(s, 19, 20)) /\ AllDigits(SubSeq(s, 23, 26))
       /\ \E m \in 1..12 : Months[m] = Lower(SubSeq(s, 4, 6))
       /\ NumVal(SubSeq(s, 1, 2)) \in 1..31
       /\ NumVal(SubSeq(s, 13, 14)) < 24
       /\ NumVal(SubSeq(s, 16, 17)) < 60
       /\ NumVal(SubSeq(s, 19, 20)) < 60
    THEN LET off == NumVal(SubSeq(s, 23, 24)) * 60 + NumVal(SubSeq(s, 25, 26))
         IN  Some([year   |-> NumVal(SubSeq(s, 8, 11)),
                   month  |-> CHOOSE m \in 1..12 : Months[m] = Lower(SubSeq(s, 4, 6)),
                   day    |-> NumVal(SubSeq(s, 1, 2)),
                   hour   |-> NumVal(SubSeq(s, 13, 14)),
                   minute |-> NumVal(SubSeq(s, 16, 17)),
                   second |-> NumVal(SubSeq(s, 19, 20)),
                   tz     |-> IF s[22] = "-" /\ off = 0 THEN None
                              ELSE IF s[22] = "-" THEN Some(0 - off)
                              ELSE Some(off)])
    ELSE None

\* datetime.date()
DateOf(dt) == [year |-> dt.year, month |-> dt.month, day |-> dt.day]

\* date.isoformat(): YYYY-MM-DD
DateIsoFormat(d) ==
    FourDigits(d.year) \o <<"-">> \o TwoDigits(d.month) \o <<"-">> \o TwoDigits(d.day)

\* the +HH:MM / -HH:MM suffix of an aware datetime's isoformat()
OffsetText(tz) ==
    IF IsNone(tz) THEN <<>>
    ELSE LET o == Val(tz)
             a == IF o < 0 THEN 0 - o ELSE o
         IN  <<IF o < 0 THEN "-" ELSE "+">> \o TwoDigits(a \div 60) \o <<":">>
                 \o TwoDigits(a % 60)

\* datetime.isoformat() (and isoformat(timespec='seconds')): YYYY-MM-DDTHH:MM:SS[+HH:MM]
IsoFormat(dt) ==
    DateIsoFormat(DateOf(dt)) \o <<"T">> \o TwoDigits(dt.hour) \o <<":">>
        \o TwoDigits(dt.minute) \o <<":">> \o TwoDigits(dt.second) \o OffsetText(dt.tz)

\* datetime.fromisoformat on the texts isoformat() produces: Some(datetime),
\* or None where it raises
FromIsoFormat(s) ==
    IF /\ Len(s) \in {19, 25}
       /\ s[5] = "-" /\ s[8] = "-" /\ s[11] = "T" /\ s[14] = ":" /\ s[17] = ":"
       /\ \A i \in {1, 2, 3, 4, 6, 7, 9, 10, 12, 13, 15, 16, 18, 19} : IsDigit(s[i])
       /\ Len(s) = 25 => /\ s[20] \in {"+", "-"} /\ s[23] = ":"
                         /\ \A i \in {21, 22, 24, 25} : IsDigit(s[i])
    THEN Some([year   |-> Num2(s, 1) * 100 + Num2(s, 3),
               month  |-> Num2(s, 6),
               day    |-> Num2(s, 9),
               hour   |-> Num2(s, 12),
               minute |-> Num2(s, 15),
               second |-> Num2(s, 18),
               tz     |-> IF Len(s) = 19 THEN None
                          ELSE LET a == Num2(s, 21) * 60 + Num2(s, 24)
                               IN  Some(IF s[20] = "-" THEN 0 - a ELSE a)])
    ELSE None

\* datetime.strftime("%Y-%m-%d %H:%M")
StrfTime(dt) ==
    DateIsoFormat(DateOf(dt)) \o <<" ">> \o TwoDigits(dt.hour) \o <<":">>
        \o TwoDigits(dt.minute)

\* datetime.isoformat(sep=' ', timespec='seconds') of the naive clock value
IsoFormatSpace(dt) ==
    DateIsoFormat(DateOf(dt)) \o <<" ">> \o TwoDigits(dt.hour) \o <<":">>
        \o TwoDigits(dt.minute) \o <<":">> \o TwoDigits(dt.second)

(***************************** parse_rss ***********************************)
\* An element tree (ET.fromstring's result) is the sequence of its elements in
\* document order, each [tag, text, parent]: text is None or Some(text),
\* parent is the index of the parent element, 0 for the root.  ET writes a
\* namespaced tag as {uri}local.

TagItem == <<"i","t","e","m">>
TagTitle == <<"t","i","t","l","e">>
TagLink == <<"l","i","n","k">>
TagCategory == <<"c","a","t","e","g","o","r","y">>
TagPubdate == <<"p","u","b","d","a","t","e">>

\* _tag_endswith
TagEndswith(tag, name) == EndsWith(Lower(tag), Lower(name))

\* the members of a set of indices, ascending
RECURSIVE Ascending(_)
Ascending(S) ==
    IF S = {} THEN <<>>
    ELSE LET m == CHOOSE x \in S : \A y \in S : y <= x
         IN  Append(Ascending(S \ {m}), m)

\* `for child in item`: the direct children of element i, in document order
Children(tree, i) == Ascending({j \in 1..Len(tree) : tree[j].parent = i})

\* get_child_text: the text of the first child whose tag matches, else ""
GetChildText(tree, i, name) ==
    LET kids == Children(tree, i)
        found == SelectSeq(kids, LAMBDA j : TagEndswith(tree[j].tag, name))
    IN  IF Len(found) = 0 THEN <<>>
        ELSE IF IsNone(tree[found[1]].text) THEN <<>>
        ELSE Val(tree[found[1]].text)

\* the body of parse_rss's loop: the dict built from one item element
ParseItem(tree, i) ==
    LET title == Strip(GetChildText(tree, i, TagTitle))
        link == Strip(GetChildText(tree, i, TagLink))
        category == Strip(GetChildText(tree, i, TagCategory))
        pubdate_raw == Strip(GetChildText(tree, i, TagPubdate))
        pubdate_dt == IF Len(pubdate_raw) > 0 THEN ParsedateToDatetime(pubdate_raw)
                      ELSE None
        pubdate_iso == IF IsNone(pubdate_dt) THEN None
                       ELSE Some(IsoFormat(Val(pubdate_dt)))
    IN  [title |-> Unescape(title), link |-> link, category |-> category,
         pubdate_raw |-> pubdate_raw, pubdate_iso |-> pubdate_iso,
         pubdate_dt |-> pubdate_dt]

\* the elements root.iter() visits for which parse_rss builds an item
ItemElements(tree) ==
    Ascending({i \in 1..Len(tree) : TagEndswith(tree[i].tag, TagItem)})

\* parse_rss, on the tree of a well-formed document
ParseRss(tree) ==
    LET idx == ItemElements(tree) IN [k \in 1..Len(idx) |-> ParseItem(tree, idx[k])]

(***************************** filter_news *********************************)
\* date_filter is None or Some(date); categories is None or Some(list of text)
FilterKeeps(it, date_filter, categories) ==
    /\ (~IsNone(date_filter) /\ ~IsNone(it.pubdate_dt))
           => DateOf(Val(it.pubdate_dt)) = Val(date_filter)
    /\ (~IsNone(categories) /\ Len(Val(categories)) > 0 /\ Len(it.category) > 0)
           => \E k \in 1..Len(Val(categories)) : Val(categories)[k] = it.category

FilterNews(items, date_filter, categories) ==
    LET Keep(it) == FilterKeeps(it, date_filter, categories) IN SelectSeq(items, Keep)

(***************************** the store ***********************************)
\* The sqlite file is [created, news]: created says whether table news exists,
\* news is its rows in rowid order, each
\* [id, link, title, category, pubdate_iso, pubdate_raw, saved_at].

\* init_db: CREATE TABLE IF NOT EXISTS news
InitDb(d) == IF d.created THEN d ELSE [created |-> TRUE, news |-> <<>>]

\* the INSERT of save_new_to_db: [ok, news], ok FALSE where link UNIQUE raises
\* sqlite3.IntegrityError and the table is left as it was
InsertUpsert(news, it, t) ==
    LET kept == SelectSeq(news, LAMBDA r : r.link # it.link)
    IN  [ok |-> TRUE,
         news |-> Append(kept,
                    [id |-> Len(news) + 1, link |-> it.link, title |-> it.title,
                     category |-> it.category, pubdate_iso |-> it.pubdate_iso,
                     pubdate_raw |-> it.pubdate_raw, saved_at |-> IsoFormat(t)])]
InsertNoUnique(news, it, t) ==
    [ok |-> TRUE,
     news |-> Append(news,
                [id |-> Len(news) + 1, link |-> it.link, title |-> it.title,
                 category |-> it.category, pubdate_iso |-> it.pubdate_iso,
                 pubdate_raw |-> it.pubdate_raw, saved_at |-> IsoFormat(t)])]
InsertNews(news, it, t) ==
    IF \E k \in 1..Len(news) : news[k].link = it.link
    THEN [ok |-> FALSE, news |-> news]
    ELSE [ok |-> TRUE,
          news |-> Append(news,
                     [id |-> Len(news) + 1, link |-> it.link, title |-> it.title,
                      category |-> it.category, pubdate_iso |-> it.pubdate_iso,
                      pubdate_raw |-> it.pubdate_raw, saved_at |-> IsoFormat(t)])]

\* save_new_to_db on an existing table: [news, added]
RECURSIVE SaveNewToDb(_, _, _)
SaveNewToDb(news, items, t) ==
    IF Len(items) = 0 THEN [news |-> news, added |-> <<>>]
    ELSE LET r == InsertNews(news, Head(items), t)
             rest == SaveNewToDb(r.news, Tail(items), t)
         IN  [news |-> rest.news,
              added |-> IF r.ok THEN <<Head(items)>> \o rest.added ELSE rest.added]

\* the dict query_db_for_date builds from a row
RowDict(r) ==
    [title |-> r.title, link |-> r.link, category |-> r.category,
     pubdate_iso |-> r.pubdate_iso, pubdate_raw |-> r.pubdate_raw]

\* pubdate_iso LIKE 'YYYY-MM-DD%': NULL never matches; LIKE ignores ASCII case
LikePrefix(v, prefix) ==
    /\ ~IsNone(v)
    /\ Len(Val(v)) >= Len(prefix)
    /\ Lower(SubSeq(Val(v), 1, Len(prefix))) = Lower(prefix)

\* the rows the WHERE clause selects, in rowid order
RowsMatching(news, date) ==
    LET start == DateIsoFormat(date) IN
    SelectSeq(news, LAMBDA r : LikePrefix(r.pubdate_iso, start))

\* ORDER BY pubdate_iso DESC: no row sorts after a row of greater text
OrderedDesc(rows) ==
    \A k \in 1..(Len(rows) - 1) :
        ~TextLess(Val(rows[k].pubdate_iso), Val(rows[k + 1].pubdate_iso))
OrderedAsc(rows) ==
    \A k \in 1..(Len(rows) - 1) :
        ~TextLess(Val(rows[k + 1].pubdate_iso), Val(rows[k].pubdate_iso))

\* the arrangements of rows (sqlite does not fix the order of equal keys)
Arrangements(rows) ==
    { [k \in 1..Len(rows) |-> rows[p[k]]] : p \in Permutations(1..Len(rows)) }

\* query_db_for_date on an existing table: the lists it can return
QueryAscending(news, date) ==
    LET matching == RowsMatching(news, date)
        sorted == { a \in Arrangements(matching) : OrderedAsc(a) }
    IN  { [k \in 1..Len(rows) |-> RowDict(rows[k])] : rows \in sorted }
QueryDbForDate(news, date) ==
    LET matching == RowsMatching(news, date)
        sorted == { a \in Arrangements(matching) : OrderedDesc(a) }
    IN  { [k \in 1..Len(rows) |-> RowDict(rows[k])] : rows \in sorted }

(***************************** render and write ****************************)
\* the display timestamp of render_news_html
DisplayTime(it) ==
    LET has_iso == ~IsNone(it.pubdate_iso) /\ Len(Val(it.pubdate_iso)) > 0
        pub == IF has_iso THEN Val(it.pubdate_iso) ELSE it.pubdate_raw
        dt == FromIsoFormat(Val(it.pubdate_iso))
    IN  IF has_iso /\ ~IsNone(dt) THEN StrfTime(Val(dt)) ELSE pub

\* one <article> block: the four values substituted into it
ArticleBlock(it) ==
    [href |-> Escape(it.link), title |-> Escape(it.title),
     category |-> Escape(it.category), pub |-> DisplayTime(it)]

\* render_news_html: the values that replace {{date}}, {{news_list}} and
\* {{generated_at}}; nothing_found says the body is the "nothing found" note
RenderNewsHtml(date, items, t) ==
    [date |-> DateIsoFormat(date),
     news_list |-> [k \in 1..Len(items) |-> ArticleBlock(items[k])],
     nothing_found |-> (Len(items) = 0),
     generated_at |-> IsoFormatSpace(t)]

\* news_YYYYMMDD.html
FileName(date) ==
    <<"n","e","w","s","_">> \o FourDigits(date.year) \o TwoDigits(date.month)
        \o TwoDigits(date.day) \o <<".","h","t","m","l">>

\* write_news_file: open(path, "w") replaces the file of that name
WriteNewsFile(fs, date, html_text) ==
    {f \in fs : f.name # FileName(date)}
        \cup {[name |-> FileName(date), text |-> html_text]}

\* main passes the store's rows for today to render_news_html
RenderInputFromFeed(todays, db_items) ==
    [k \in 1..Len(todays) |-> RowDict(todays[k])]
RenderInput(todays, db_items) == db_items

(***************************** inputs **************************************)
\* "dd Mar 2024 hh:00:00 +zz00", the pubDate text of a feed entry
RfcDate(d, h, z) ==
    TwoDigits(d) \o <<" ","M","a","r"," ","2","0","2","4"," ">> \o TwoDigits(h)
        \o <<":","0","0",":","0","0"," ","+">> \o TwoDigits(z) \o <<"0","0">>

Garbage == <<"s","o","o","n">>

\* the <item> element of a feed entry e with its four children, placed at
\* index at under the element parent
ItemSubtree(e, at, parent) ==
    LET pre == IF e.ns THEN <<"{","u","}">> ELSE <<>> IN
    << [tag |-> pre \o TagItem, text |-> None, parent |-> parent],
       [tag |-> pre \o TagTitle, text |-> Some(e.title), parent |-> at],
       [tag |-> pre \o TagLink, text |-> Some(e.link), parent |-> at],
       [tag |-> TagCategory, text |-> e.category, parent |-> at],
       [tag |-> <<"p","u","b","D","a","t","e">>, text |-> e.pubDate, parent |-> at] >>

\* <rss><channel> item* </channel></rss>
RECURSIVE ItemSubtrees(_, _)
ItemSubtrees(es, at) ==
    IF Len(es) = 0 THEN <<>>
    ELSE ItemSubtree(Head(es), at, 2) \o ItemSubtrees(Tail(es), at + 5)
FeedTree(es) ==
    << [tag |-> <<"r","s","s">>, text |-> None, parent |-> 0],
       [tag |-> <<"c","h","a","n","n","e","l">>, text |-> None, parent |-> 1] >>
        \o ItemSubtrees(es, 3)

\* sequences of members of S of length at most n
SeqsUpTo(S, n) == UNION { [1..k -> S] : k \in 0..n }

\* the entries a fetched feed is made of: link a at 10:00+02:00 on day 1; the
\* same link (padded) retitled, without category, on day 2; link b in a
\* namespace at 09:00+00:00 on day 1; an entry with no link and a malformed date
FeedEntries ==
    { [ns |-> FALSE, title |-> <<"T">>, link |-> <<"a">>, category |-> Some(<<"c">>),
       pubDate |-> Some(RfcDate(1, 10, 2))],
      [ns |-> FALSE, title |-> <<"U">>, link |-> <<" ","a">>, category |-> None,
       pubDate |-> Some(RfcDate(2, 9, 0))],
      [ns |-> TRUE, title |-> <<"T">>, link |-> <<"b">>, category |-> Some(<<"c">>),
       pubDate |-> Some(RfcDate(1, 9, 0))],
      [ns |-> FALSE, title |-> <<"T">>, link |-> <<>>, category |-> None,
       pubDate |-> Some(Garbage)] }

\* what requests.get + raise_for_status can give: an exception, or a body
\* that is well-formed XML (its tree) or is not
Responses ==
    { [kind |-> "network_error", wellformed |-> FALSE, tree |-> <<>>],
      [kind |-> "http_error", wellformed |-> FALSE, tree |-> <<>>],
      [kind |-> "ok", wellformed |-> FALSE, tree |-> <<>>] }
    \cup { [kind |-> "ok", wellformed |-> TRUE, tree |-> FeedTree(es)] :
              es \in SeqsUpTo(FeedEntries, MaxFeedItems) }

\* parse_rss tabulated over the trees of the well-formed bodies
FeedTrees == { FeedTree(es) : es \in SeqsUpTo(FeedEntries, MaxFeedItems) }
ParsedFeed == [tree \in FeedTrees |-> ParseRss(tree)]

\* the item lists of direct save_new_to_db calls
SaveLists == { ParseRss(FeedTree(es)) : es \in SeqsUpTo(FeedEntries, MaxSaveItems) }

\* the dates the feed entries carry, for date filters and queries
Date(d) == [year |-> 2024, month |-> 3, day |-> d]
EntryDates == {Date(1), Date(2)}

\* the clock at instant t: a naive local datetime in March 2024
Clock(t) ==
    [year |-> 2024, month |-> 3, day |-> 1 + (t \div TicksPerDay), hour |-> 0,
     minute |-> 0, second |-> t % TicksPerDay, tz |-> None]

(***************************** the program *********************************)
\* db     the sqlite file
\* files  the files of the news directory, each [name, text]
\* now    the wall clock
\* op     the operation that ran last
\* args   its arguments, ret its outcome [exc, val] (exc "" when it returned)
\* run    what the last run of main printed and computed

NoRet == [exc |-> "", val |-> <<>>]

NoRun ==
    [outcome |-> "none", printed |-> <<>>, xml |-> None, today |-> None,
     items |-> <<>>, todays |-> <<>>, added |-> <<>>, db_items |-> <<>>,
     rendered |-> <<>>, html_text |-> None]

Init ==
    /\ db = [created |-> FALSE, news |-> <<>>]
    /\ files = {}
    /\ now = Clock(0)
    /\ op = "start"
    /\ args = <<>>
    /\ ret = NoRet
    /\ run = NoRun

\* main() after the template check: fetch, parse, filter, save, query,
\* render, write
MainFetched(resp) ==
    LET d1 == InitDb(db)
        banner == << <<"banner">> >>
        body == [wellformed |-> resp.wellformed, tree |-> resp.tree]
        items == ParsedFeed[resp.tree]
        today == DateOf(now)
        todays == FilterNews(items, Some(today), None)
        saved == SaveNewToDb(d1.news, todays, now)
    IN
    IF resp.kind # "ok"
    THEN /\ db' = d1
         /\ files' = files
         /\ run' = [NoRun EXCEPT !.outcome = "fetch_failed",
                      !.printed = Append(banner, <<"fetch_error", resp.kind>>)]
    ELSE IF ~resp.wellformed
    THEN \* ET.ParseError leaves main uncaught: main prints nothing more
         /\ db' = d1
         /\ files' = files
         /\ run' = [NoRun EXCEPT !.outcome = "uncaught_ParseError",
                      !.printed = banner, !.xml = Some(body)]
    ELSE \E db_items \in QueryDbForDate(saved.news, today) :
         LET rendered == RenderInput(todays, db_items)
             html_text == RenderNewsHtml(today, rendered, now)
         IN
         /\ db' = [created |-> TRUE, news |-> saved.news]
         /\ files' = WriteNewsFile(files, today, html_text)
         /\ run' = [outcome |-> "ok",
                    printed |-> banner \o
                       << <<"found", Len(items)>>, <<"today", Len(todays)>>,
                          <<"added", Len(saved.added)>>,
                          <<"in_db", Len(db_items)>>,
                          <<"saved_file", FileName(today)>>, <<"done">> >>,
                    xml |-> Some(body), today |-> Some(today),
                    items |-> items, todays |-> todays,
                    added |-> saved.added, db_items |-> db_items,
                    rendered |-> rendered, html_text |-> Some(html_text)]

\* main(), from its first line to its return or to the exception that ends it
Main ==
    /\ op' = "main"
    /\ args' = <<>>
    /\ ret' = NoRet
    /\ now' = now
    /\ \E template_exists \in BOOLEAN :
         IF ~template_exists
         THEN /\ db' = InitDb(db)
              /\ files' = files
              /\ run' = [NoRun EXCEPT !.outcome = "no_template",
                           !.printed = << <<"banner">>, <<"template_missing">> >>]
         ELSE \E resp \in Responses : MainFetched(resp)

\* init_db() called on its own
InitDbCall ==
    /\ ~db.created
    /\ db' = InitDb(db)
    /\ op' = "init_db"
    /\ args' = <<>>
    /\ ret' = NoRet
    /\ run' = NoRun
    /\ UNCHANGED <<files, now>>

\* save_new_to_db(items) called on its own; without the table the INSERT
\* raises sqlite3.OperationalError
SaveNewToDbCall ==
    \E items \in SaveLists :
        /\ op' = "save_new_to_db"
        /\ args' = <<items>>
        /\ run' = NoRun
        /\ IF db.created
           THEN LET saved == SaveNewToDb(db.news, items, now) IN
                /\ db' = [db EXCEPT !.news = saved.news]
                /\ ret' = [exc |-> "", val |-> saved.added]
           ELSE /\ db' = db
                /\ ret' = [exc |-> "OperationalError", val |-> <<>>]
        /\ UNCHANGED <<files, now>>

\* query_db_for_date(date_obj) called on its own
QueryDbForDateCall ==
    \E date \in EntryDates :
        /\ op' = "query_db_for_date"
        /\ args' = <<date>>
        /\ run' = NoRun
        /\ IF db.created
           THEN \E rows \in QueryDbForDate(db.news, date) :
                    ret' = [exc |-> "", val |-> rows]
           ELSE ret' = [exc |-> "OperationalError", val |-> <<>>]
        /\ UNCHANGED <<db, files, now>>

\* time passes: the clock shows the next instant
Tick ==
    /\ \E t \in 0..(MaxTicks - 1) :
          /\ now = Clock(t)
          /\ now' = Clock(t + 1)
    /\ UNCHANGED <<db, files, op, args, ret, run>>

Next ==
    \/ Main
    \/ InitDbCall
    \/ SaveNewToDbCall
    \/ QueryDbForDateCall
    \/ Tick

Spec == Init /\ [][Next]_vars

(***************************** filter_news alone ***************************)
\* the items of filter_news calls: parsed entries with every kind of
\* category (none, c, e) and of date (none, malformed, day 1, day 2)
FilterEntries ==
    [ns : {FALSE}, title : {<<"T">>}, link : {<<"a">>},
     category : {None, Some(<<"c">>), Some(<<"e">>)},
     pubDate : {None, Some(Garbage), Some(RfcDate(1, 10, 2)), Some(RfcDate(2, 9, 0))}]
FilterItems == { ParseRss(FeedTree(<<e>>))[1] : e \in FilterEntries }
FilterArgs ==
    [items : SeqsUpTo(FilterItems, MaxFilterItems),
     date_filter : {None} \cup {Some(d) : d \in EntryDates},
     categories : {None, Some(<<>>), Some(<< <<"c">> >>), Some(<< <<"c">>, <<"e">> >>)}]

InitFilter ==
    /\ db = [created |-> FALSE, news |-> <<>>]
    /\ files = {}
    /\ now = Clock(0)
    /\ op = "start"
    /\ args \in FilterArgs
    /\ ret = NoRet
    /\ run = NoRun

\* filter_news(items, date_filter, categories)
FilterNewsCall ==
    /\ op = "start"
    /\ op' = "filter_news"
    /\ ret' = [exc |-> "", val |-> FilterNews(args.items, args.date_filter, args.categories)]
    /\ UNCHANGED <<db, files, now, args, run>>

SpecFilter == InitFilter /\ [][FilterNewsCall]_vars

(***************************** parse_rss alone *****************************)
ParseTags ==
    { TagItem, <<"{","u","}","I","t","e","m">>, <<"n","e","w","s","i","t","e","m">>,
      TagTitle, <<"{","u","}","t","i","t","l","e">> }
ParseTexts == {None, Some(<<"x">>)}

\* element j and its ancestors, given the parent of every element
RECURSIVE PathToRoot(_, _)
PathToRoot(parents, j) ==
    IF parents[j] = 0 THEN {j} ELSE {j} \cup PathToRoot(parents, parents[j])

\* the parent indices of k elements listed in document order
DocumentOrders(k) ==
    { p \in [1..k -> 0..(k - 1)] :
        /\ p[1] = 0
        /\ \A i \in 2..k : p[i] \in 1..(i - 1) }
ParentMaps(k) ==
    { p \in DocumentOrders(k) : \A i \in 2..k : p[i] \in PathToRoot(p, i - 1) }

\* the element trees of at most MaxNodes elements
ParseTrees ==
    UNION { { [i \in 1..k |-> [tag |-> tg[i], text |-> tx[i], parent |-> pr[i]]] :
                tg \in [1..k -> ParseTags], tx \in [1..k -> ParseTexts],
                pr \in ParentMaps(k) } : k \in 1..MaxNodes }

ParseArgs ==
    { [wellformed |-> FALSE, tree |-> <<>>] }
        \cup { [wellformed |-> TRUE, tree |-> t] : t \in ParseTrees }

InitParse ==
    /\ db = [created |-> FALSE, news |-> <<>>]
    /\ files = {}
    /\ now = Clock(0)
    /\ op = "start"
    /\ args \in ParseArgs
    /\ ret = NoRet
    /\ run = NoRun

\* parse_rss(xml_text): ET.fromstring raises ParseError on text that is not
\* well-formed
ParseRssCall ==
    /\ op = "start"
    /\ op' = "parse_rss"
    /\ ret' = IF args.wellformed THEN [exc |-> "", val |-> ParseRss(args.tree)]
              ELSE [exc |-> "ParseError", val |-> <<>>]
    /\ UNCHANGED <<db, files, now, args, run>>

SpecParse == InitParse /\ [][ParseRssCall]_vars

(***************************** properties **********************************)
Range(seq) == { seq[k] : k \in 1..Len(seq) }

\* the item has a parsed publish date and its calendar date is d
PublishedOn(it, d) == ~IsNone(it.pubdate_dt) /\ DateOf(Val(it.pubdate_dt)) = d

\* C3: date-filter correctness.  filter_news(items, date_filter=D) returns, in
\* order, exactly the items that have a parsed publish date whose calendar
\* date is D; an item without a parsed date is not returned.
DateFilterExact ==
    (op = "filter_news" /\ ~IsNone(args.date_filter) /\ IsNone(args.categories))
        => ret.val = SelectSeq(args.items,
                               LAMBDA it : PublishedOn(it, Val(args.date_filter)))

\* C9: category-filter correctness.  With a non-empty category list C,
\* filter_news returns only items whose category is non-empty and in C, and
\* with a date filter D as well only items that are also published on D.
CategoryFilterSound ==
    (op = "filter_news" /\ ~IsNone(args.categories) /\ Len(Val(args.categories)) > 0)
        => \A k \in 1..Len(ret.val) :
              /\ Len(ret.val[k].category) > 0
              /\ ret.val[k].category \in Range(Val(args.categories))
              /\ ~IsNone(args.date_filter)
                    => PublishedOn(ret.val[k], Val(args.date_filter))

\* the tag without its {namespace} prefix
LocalName(tag) ==
    IF Len(tag) > 0 /\ tag[1] = "{" /\ \E i \in 1..Len(tag) : tag[i] = "}"
    THEN SubSeq(tag, (CHOOSE i \in 1..Len(tag) :
                         tag[i] = "}" /\ \A j \in 1..(i - 1) : tag[j] # "}") + 1,
                Len(tag))
    ELSE tag

\* the tree with every namespace prefix removed
Unprefixed(tree) ==
    [i \in 1..Len(tree) |-> [tree[i] EXCEPT !.tag = LocalName(tree[i].tag)]]

\* the elements whose local name is item, whatever the case
ExactItemElements(tree) ==
    Ascending({i \in 1..Len(tree) : Lower(LocalName(tree[i].tag)) = TagItem})

\* C10: parse_rss returns one item, in document order, for every element
\* whose tag without namespace prefix equals item case-insensitively, and for
\* no other element (not for newsitem); a tree with namespace prefixes gives
\* the items of the same tree without them.
ItemsAreExactlyItemElements ==
    (op = "parse_rss" /\ ret.exc = "")
        => /\ ret.val = [k \in 1..Len(ExactItemElements(args.tree)) |->
                            ParseItem(args.tree, ExactItemElements(args.tree)[k])]
           /\ ret.val = ParseRss(Unprefixed(args.tree))

Links(news) == { news[k].link : k \in 1..Len(news) }

\* a step of main / of a direct save_new_to_db call (the clock stands still
\* while an operation runs; op keeps its value while the clock ticks)
MainStep == op' = "main" /\ now' = now
SaveStep == op' = "save_new_to_db" /\ now' = now

\* C1: uniqueness.  Whatever runs and insert attempts happened, no two rows
\* of the table have the same link (the empty link included).
UniqueLinks ==
    \A i, j \in 1..Len(db.news) : db.news[i].link = db.news[j].link => i = j

\* C1 case: a run offered the store a list that repeats the empty link, and
\* one record was inserted for it
RepeatedEmptyLinkOffered ==
    /\ op = "main" /\ run.outcome = "ok"
    /\ Len(run.todays) = 2
    /\ run.todays[1].link = <<>> /\ run.todays[2].link = <<>>
    /\ Len(run.added) = 1

\* C2: idempotence.  When main has just completed and runs again on the same
\* day on the same feed, the second run inserts nothing, leaves the table as
\* it was, and its query for today returns the same set of records.
RerunInsertsNothing ==
    [][ (/\ op = "main" /\ run.outcome = "ok"
         /\ MainStep /\ run'.outcome = "ok"
         /\ run'.xml = run.xml /\ run'.today = run.today)
            => /\ run'.added = <<>>
               /\ db' = db
               /\ Range(run'.db_items) = Range(run.db_items) ]_vars

\* C2 case: a completed run whose feed had items for the store, all of them
\* stored before, with records for today in the store
RerunHappened ==
    /\ op = "main" /\ run.outcome = "ok"
    /\ Len(run.todays) > 0 /\ run.added = <<>> /\ Len(run.db_items) > 0

\* the items of a run's feed that have a parsed date on the run's day
WellFormedToday(r) ==
    SelectSeq(r.items, LAMBDA it : PublishedOn(it, Val(r.today)))

\* C4: a completed run inserts exactly one record per distinct link, not
\* stored before, among the items of the feed whose date parsed and is
\* today; in particular every record it inserts has a pubdate_iso.
RunInsertsOnlyDatedToday ==
    [][ (MainStep /\ run'.outcome = "ok")
            => /\ Len(run'.added)
                    = Cardinality({ it.link : it \in Range(WellFormedToday(run')) }
                                      \ Links(db.news))
               /\ \A k \in (Len(db.news) + 1)..Len(db'.news) :
                     ~IsNone(db'.news[k].pubdate_iso) ]_vars

\* C5: no row is ever changed or removed, and an item whose link is already
\* stored is never reported as added, by a run or by a direct call.
StoredRowsNeverChange ==
    [][ /\ Len(db'.news) >= Len(db.news)
        /\ \A k \in 1..Len(db.news) : db'.news[k] = db.news[k]
        /\ MainStep => \A k \in 1..Len(run'.added) :
                          run'.added[k].link \notin Links(db.news)
        /\ SaveStep => \A k \in 1..Len(ret'.val) :
                          ret'.val[k].link \notin Links(db.news) ]_vars

\* C5 case: a run offered an item whose link was stored with another title
\* at an earlier instant; the item was not added
RetitledItemOffered ==
    /\ op = "main" /\ run.outcome = "ok"
    /\ \E k \in 1..Len(run.todays) : \E j \in 1..Len(db.news) :
          /\ db.news[j].link = run.todays[k].link
          /\ db.news[j].title # run.todays[k].title
          /\ db.news[j].saved_at # IsoFormat(now)
          /\ run.todays[k] \notin Range(run.added)

\* the rows whose pubdate_iso is a datetime on date d
RowsDated(news, d) ==
    SelectSeq(news, LAMBDA r : /\ ~IsNone(r.pubdate_iso)
                               /\ ~IsNone(FromIsoFormat(Val(r.pubdate_iso)))
                               /\ DateOf(Val(FromIsoFormat(Val(r.pubdate_iso)))) = d)

\* C6: after a completed run the records given to render_news_html are
\* exactly the stored records dated today, the page shows one block for each
\* of them, and that page is the file of the day.
PageShowsStoredRecordsOfToday ==
    (op = "main" /\ run.outcome = "ok")
        => LET stored == RowsDated(db.news, Val(run.today)) IN
           /\ Len(run.rendered) = Len(stored)
           /\ Range(run.rendered) = { RowDict(r) : r \in Range(stored) }
           /\ Range(Val(run.html_text).news_list)
                 = { ArticleBlock(RowDict(r)) : r \in Range(stored) }
           /\ [name |-> FileName(Val(run.today)), text |-> Val(run.html_text)] \in files

\* C6 case: the page of a completed run shows a record whose link is not in
\* the feed that run fetched
PageShowsEarlierRecord ==
    /\ op = "main" /\ run.outcome = "ok"
    /\ \E k \in 1..Len(run.rendered) :
          run.rendered[k].link \notin { it.link : it \in Range(run.items) }

\* minutes from the start of the year to the instant a pubdate_iso text
\* names, in UTC (months counted as 31 days)
UtcMinutes(iso) ==
    LET dt == Val(FromIsoFormat(iso))
        off == IF IsNone(dt.tz) THEN 0 ELSE Val(dt.tz)
    IN  (((dt.month * 31 + dt.day) * 24 + dt.hour) * 60 + dt.minute) - off
OffsetOf(iso) == Val(FromIsoFormat(iso)).tz

\* rows is the stored records whose pubdate_iso starts with the text of d
ExactlyTheRowsOf(rows, news, d) ==
    LET hits == SelectSeq(news, LAMBDA r :
                   /\ ~IsNone(r.pubdate_iso)
                   /\ Len(Val(r.pubdate_iso)) >= 10
                   /\ SubSeq(Val(r.pubdate_iso), 1, 10) = DateIsoFormat(d))
    IN  /\ Len(rows) = Len(hits)
        /\ Range(rows) = { RowDict(r) : r \in Range(hits) }
        /\ \A k \in 1..Len(rows) : ~IsNone(rows[k].pubdate_iso)

\* the query that ran last: its result and its date
LastQuery ==
    IF op = "main" THEN [rows |-> run.db_items, date |-> Val(run.today)]
    ELSE [rows |-> ret.val, date |-> args[1]]
QueryReturned ==
    \/ op = "main" /\ run.outcome = "ok"
    \/ op = "query_db_for_date" /\ ret.exc = ""

FailedRunPrintsAndChangesNothing ==
    [][ (MainStep /\ run'.outcome \in {"fetch_failed", "uncaught_ParseError"})
            => /\ \E k \in 1..Len(run'.printed) :
                     run'.printed[k][1] \in {"fetch_error", "parse_error"}
               /\ db'.news = db.news
               /\ files' = files ]_vars

====
